---- MODULE Spec2Model ----
(***************************************************************************)
(* ComparativeAnalyzer of NewsSummarizer (src/Utils/comparative.py) as a   *)
(* state machine: a caller collects a batch of article dictionaries, calls *)
(* analyze on it and receives a ComparativeSentiment report, and calls     *)
(* generate_final_sentiment_analysis and receives the summary sentence;    *)
(* SpecServed interleaves the steps of concurrent requests, and SpecApi is  *)
(* the two endpoints of src/api_file.py with the TextToSpeech instance of  *)
(* src/Utils/tts.py they share.                                            *)
(*                                                                         *)
(* Python values are modelled as follows.                                  *)
(*   dict          a TLA+ record whose DOMAIN holds exactly the keys that  *)
(*                 are present; dict.get(k, d) is Get(d, k, default)       *)
(*   str           a TLA+ string; f-strings and ', '.join are built with   *)
(*                 \o, str.lower() is the table Lower                      *)
(*   None          the value None (a reserved string)                      *)
(*   list          a sequence                                              *)
(*   set           a set; list(set) and iteration over a set have no       *)
(*                 order the language fixes, so ListOf(S) is the set of    *)
(*                 all its enumerations and the caller sees any of them    *)
(*   Counter/dict  keys in first-insertion order (Keys) with their counts  *)
(*   float         the binary64 value, bit by bit (see FloatDiv)           *)
(*   raise         an outcome [exc |-> TRUE]; a normal return of a         *)
(*                 function that can raise is [exc |-> FALSE, val |-> v]   *)
(* An operator that models a function whose result depends on set order    *)
(* denotes the SET of its possible outcomes.                               *)
(***************************************************************************)
EXTENDS Integers, Sequences, FiniteSets, TLC

VARIABLES articles, company_name, report, final_sentiment, phase,
          calls, analyzer_attributes, set_order,
          handlers, files, text_to_speech

vars == <<articles, company_name, report, final_sentiment, phase,
          calls, analyzer_attributes, set_order,
          handlers, files, text_to_speech>>

\* ------------------------------------------------------------------ bounds

\* longest batch a caller hands to analyze
MaxArticles == 3

\* longest topic list of one article in the topic-centred input domain
MaxTopics == 2

\* largest batch handed to generate_final_sentiment_analysis, and the most articles
\* of such a batch whose sentiment is not a recognised label
MaxBatch == 15

MaxOther == 1

\* requests served at the same time by the one analyzer
MaxRequests == 2

\* ------------------------------------------------------------ Python values

None == "<None>"

Labels == {"Positive", "Negative", "Neutral"}

TopicNames == {"General", "Earnings", "Lawsuit", "Merger"}

Companies == {"Acme", "Initech"}

\* dict.get(key, default)
Get(d, key, default) == IF key \in DOMAIN d THEN d[key] ELSE default

\* values on which str methods exist
IsStr(v) == v # None

\* str.lower() on the strings of the model
Lower(s) ==
  CASE s = "Positive" -> "positive"
    [] s = "Negative" -> "negative"
    [] s = "Neutral" -> "neutral"
    [] s = "Mixed" -> "mixed"
    [] OTHER -> s

Range(s) == {s[i] : i \in DOMAIN s}

\* sep.join(list) with sep = ", "
RECURSIVE Join(_)
Join(s) ==
  IF s = <<>> THEN ""
  ELSE IF Len(s) = 1 THEN s[1]
  ELSE s[1] \o ", " \o Join(Tail(s))

\* list[:n]
Take(s, n) == SubSeq(s, 1, IF Len(s) < n THEN Len(s) ELSE n)

\* list(S) for a set S: every enumeration of S is a possible outcome
ListOf(S) ==
  {s \in [1..Cardinality(S) -> S] : \A i, j \in 1..Cardinality(S) : s[i] = s[j] => i = j}

\* number of occurrences of x in the list s: Counter(s)[x]
RECURSIVE Count(_, _)
Count(s, x) ==
  IF s = <<>> THEN 0
  ELSE (IF s[1] = x THEN 1 ELSE 0) + Count(Tail(s), x)

\* keys of Counter(s) in insertion order: the distinct elements of s by first occurrence
RECURSIVE Keys(_)
Keys(s) ==
  IF s = <<>> THEN <<>>
  ELSE LET k == Keys(SubSeq(s, 1, Len(s) - 1))
           x == s[Len(s)]
       IN IF x \in Range(k) THEN k ELSE Append(k, x)

\* all_topics: for article in articles: all_topics.extend(article.get('topics', []))
RECURSIVE Flatten(_)
Flatten(arts) ==
  IF arts = <<>> THEN <<>>
  ELSE Get(arts[1], "topics", <<>>) \o Flatten(Tail(arts))

\* Counter.most_common(n) over the keys (insertion order) of Counter(s): by count
\* descending, equal counts in insertion order (heapq.nlargest is stable)
RECURSIVE MostCommon(_, _, _)
MostCommon(keys, s, n) ==
  IF n = 0 \/ keys = <<>> THEN <<>>
  ELSE LET best == CHOOSE i \in DOMAIN keys :
                     \A j \in DOMAIN keys :
                        \/ Count(s, keys[j]) < Count(s, keys[i])
                        \/ Count(s, keys[j]) = Count(s, keys[i]) /\ i <= j
           rest == [k \in 1..(Len(keys) - 1) |-> IF k < best THEN keys[k] ELSE keys[k + 1]]
       IN <<keys[best]>> \o MostCommon(rest, s, n - 1)

\* ------------------------------------------------------- ComparativeAnalyzer

\* _get_default_analysis: the report returned on empty input or on any exception
_get_default_analysis ==
  [sentiment_distribution |-> [positive |-> 0, negative |-> 0, neutral |-> 0],
   coverage_differences |-> <<>>,
   topic_overlap |-> [common_topics |-> <<>>, unique_topics |-> <<>>]]

\* [article.get('sentiment', 'Neutral') for article in articles]
SentimentList(arts) == [i \in DOMAIN arts |-> Get(arts[i], "sentiment", "Neutral")]

\* as _calculate_sentiment_distribution, reading article.get('sentiment') without
\* the 'Neutral' default: an article with no sentiment key is tallied under None
_calculate_sentiment_distribution_nodefault(arts) ==
  LET sentiment_counts == [i \in DOMAIN arts |-> Get(arts[i], "sentiment", None)]
  IN [positive |-> Count(sentiment_counts, "Positive"),
      negative |-> Count(sentiment_counts, "Negative"),
      neutral |-> Count(sentiment_counts, "Neutral")]

\* _calculate_sentiment_distribution: Counter over the sentiments (str and None are
\* hashable), then the three buckets read with Counter.get(label, 0)
_calculate_sentiment_distribution(arts) ==
  LET sentiment_counts == SentimentList(arts)
  IN [positive |-> Count(sentiment_counts, "Positive"),
      negative |-> Count(sentiment_counts, "Negative"),
      neutral |-> Count(sentiment_counts, "Neutral")]

\* f"Article {i+1}" for the article at (1-based) position pos = i + 1
ArticleLabel(pos) == "Article " \o ToString(pos)

\* the unique_topics dict: entries in insertion (article) order, an entry only for
\* the positions that have a list in lists
RECURSIVE UniqueEntries(_, _, _)
UniqueEntries(n, lists, pos) ==
  IF pos > n THEN <<>>
  ELSE (IF pos \in DOMAIN lists
        THEN <<[key |-> ArticleLabel(pos), value |-> lists[pos]]>>
        ELSE <<>>) \o UniqueEntries(n, lists, pos + 1)

\* _analyze_topic_overlap: the possible outcomes (list(unique_to_article) has any order)
_analyze_topic_overlap(arts) ==
  LET all_topics == Flatten(arts)
      common_topics == SelectSeq(Keys(all_topics), LAMBDA t : Count(all_topics, t) > 1)
      unique_to_article(pos) ==
        Range(Get(arts[pos], "topics", <<>>)) \ Range(common_topics)
      present == {pos \in DOMAIN arts : unique_to_article(pos) # {}}
      orders == {f \in [present -> UNION {ListOf(unique_to_article(pos)) : pos \in present}] :
                   \A pos \in present : f[pos] \in ListOf(unique_to_article(pos))}
  IN {[common_topics |-> common_topics,
        unique_topics |-> UniqueEntries(Len(arts), f, 1)] : f \in orders}

\* as _get_trend_description, with the Neutral rules tested before the equality
_get_trend_description_neutral_first(recent_sentiment, older_sentiment) ==
  IF recent_sentiment = "Neutral"
  THEN (IF older_sentiment = "Positive" THEN "slightly worsening" ELSE "slightly improving")
  ELSE IF recent_sentiment = older_sentiment THEN "stable"
  ELSE IF recent_sentiment = "Positive" /\ older_sentiment \in {"Neutral", "Negative"}
  THEN "improving"
  ELSE IF recent_sentiment = "Negative" /\ older_sentiment \in {"Neutral", "Positive"}
  THEN "deteriorating"
  ELSE "shifting"

\* _get_trend_description
_get_trend_description(recent_sentiment, older_sentiment) ==
  IF recent_sentiment = older_sentiment THEN "stable"
  ELSE IF recent_sentiment = "Positive" /\ older_sentiment \in {"Neutral", "Negative"}
  THEN "improving"
  ELSE IF recent_sentiment = "Negative" /\ older_sentiment \in {"Neutral", "Positive"}
  THEN "deteriorating"
  ELSE IF recent_sentiment = "Neutral"
  THEN (IF older_sentiment = "Positive" THEN "slightly worsening" ELSE "slightly improving")
  ELSE "shifting"

\* the three Comparison objects of _generate_coverage_differences, as their f-strings
PosNegComparison(pos_list, neg_list, company) ==
  [comparison |-> "Positive articles focus on " \o Join(pos_list)
                    \o ", while negative articles discuss " \o Join(neg_list) \o ".",
   impact |-> "This mixed coverage suggests varying perspectives on " \o company
                \o "'s current situation."]

RecencyComparison(recent_article, older_article, company) ==
  [comparison |-> "Recent article '" \o Get(recent_article, "title", "Untitled")
                    \o "' is " \o Lower(Get(recent_article, "sentiment", "Neutral"))
                    \o ", while older article '" \o Get(older_article, "title", "Untitled")
                    \o "' is " \o Lower(Get(older_article, "sentiment", "Neutral")) \o ".",
   impact |-> "This suggests a potential "
                \o _get_trend_description(Get(recent_article, "sentiment", None),
                                          Get(older_article, "sentiment", None))
                \o " trend in " \o company \o "'s news coverage."]

TopicsComparison(most_common_topics, company) ==
  [comparison |-> "The most discussed topics across all articles are "
                    \o Join(most_common_topics) \o ".",
   impact |-> "This focus indicates the market's primary concerns regarding "
                \o company \o "."]

\* topics of the articles whose sentiment is exactly label: the set pos_topics / neg_topics
TopicsOf(arts, label) ==
  UNION {Range(Get(arts[i], "topics", <<>>)) :
           i \in {j \in DOMAIN arts : Get(arts[j], "sentiment", None) = label}}

\* recent_article.get('sentiment', 'Neutral').lower() and the same on older_article:
\* AttributeError when the batch has two articles and one of these sentiments is None
LowerRaises(arts) ==
  /\ Len(arts) >= 2
  /\ \/ ~IsStr(Get(arts[1], "sentiment", "Neutral"))
     \/ ~IsStr(Get(arts[2], "sentiment", "Neutral"))

\* as _generate_coverage_differences, with the most-discussed-topics comparison
\* appended before the recency contrast
_generate_coverage_differences_reordered(arts, company) ==
  LET positive_articles == {i \in DOMAIN arts : Get(arts[i], "sentiment", None) = "Positive"}
      negative_articles == {i \in DOMAIN arts : Get(arts[i], "sentiment", None) = "Negative"}
      first == IF positive_articles # {} /\ negative_articles # {}
               THEN {<<PosNegComparison(Take(p, 3), Take(n, 3), company)>> :
                       p \in ListOf(TopicsOf(arts, "Positive")),
                       n \in ListOf(TopicsOf(arts, "Negative"))}
               ELSE {<<>>}
      second == IF Len(arts) >= 2
                THEN <<RecencyComparison(arts[1], arts[2], company)>>
                ELSE <<>>
      all_topics == Flatten(arts)
      most_common_topics == MostCommon(Keys(all_topics), all_topics, 3)
      third == IF most_common_topics # <<>>
               THEN <<TopicsComparison(most_common_topics, company)>>
               ELSE <<>>
  IN IF LowerRaises(arts)
     THEN {[exc |-> TRUE]}
     ELSE {[exc |-> FALSE, val |-> f \o third \o second] : f \in first}

\* _generate_coverage_differences: the possible outcomes (list(pos_topics)[:3] and
\* list(neg_topics)[:3] have any order; None.lower() raises AttributeError)
_generate_coverage_differences(arts, company) ==
  LET positive_articles == {i \in DOMAIN arts : Get(arts[i], "sentiment", None) = "Positive"}
      negative_articles == {i \in DOMAIN arts : Get(arts[i], "sentiment", None) = "Negative"}
      first == IF positive_articles # {} /\ negative_articles # {}
               THEN {<<PosNegComparison(Take(p, 3), Take(n, 3), company)>> :
                       p \in ListOf(TopicsOf(arts, "Positive")),
                       n \in ListOf(TopicsOf(arts, "Negative"))}
               ELSE {<<>>}
      second == IF Len(arts) >= 2
                THEN <<RecencyComparison(arts[1], arts[2], company)>>
                ELSE <<>>
      all_topics == Flatten(arts)
      most_common_topics == MostCommon(Keys(all_topics), all_topics, 3)
      third == IF most_common_topics # <<>>
               THEN <<TopicsComparison(most_common_topics, company)>>
               ELSE <<>>
  IN IF LowerRaises(arts)
     THEN {[exc |-> TRUE]}
     ELSE {[exc |-> FALSE, val |-> f \o second \o third] : f \in first}

\* as analyze, with the except clause keeping what the steps before the failing one
\* had computed instead of returning the default report
analyze_leaky(arts, company) ==
  IF arts = <<>>
  THEN {[exc |-> FALSE, val |-> _get_default_analysis]}
  ELSE {[exc |-> FALSE,
         val |-> [sentiment_distribution |-> _calculate_sentiment_distribution(arts),
                  topic_overlap |-> to,
                  coverage_differences |-> IF cd.exc THEN <<>> ELSE cd.val]] :
          to \in _analyze_topic_overlap(arts),
          cd \in _generate_coverage_differences(arts, company)}

\* as analyze, with the empty-batch test raising to the caller instead of returning
analyze_empty_raises(arts, company) ==
  IF arts = <<>>
  THEN {[exc |-> TRUE]}
  ELSE {IF cd.exc
        THEN [exc |-> FALSE, val |-> _get_default_analysis]
        ELSE [exc |-> FALSE,
              val |-> [sentiment_distribution |-> _calculate_sentiment_distribution(arts),
                       topic_overlap |-> to,
                       coverage_differences |-> cd.val]] :
          to \in _analyze_topic_overlap(arts),
          cd \in _generate_coverage_differences(arts, company)}

\* analyze: the possible outcomes of one call. The tally and the overlap cannot raise
\* on str/None sentiments and lists of str; the exception of the coverage step is an
\* Exception (AttributeError) and is caught by the except clause.
analyze(arts, company) ==
  IF arts = <<>>
  THEN {[exc |-> FALSE, val |-> _get_default_analysis]}
  ELSE {IF cd.exc
        THEN [exc |-> FALSE, val |-> _get_default_analysis]
        ELSE [exc |-> FALSE,
              val |-> [sentiment_distribution |-> _calculate_sentiment_distribution(arts),
                       topic_overlap |-> to,
                       coverage_differences |-> cd.val]] :
          to \in _analyze_topic_overlap(arts),
          cd \in _generate_coverage_differences(arts, company)}

\* --------------------------------------------------- Python float arithmetic

\* A Python float (IEEE 754 binary64, round to nearest, ties to even) that is >= 0:
\* [m |-> the 53 bits of the significand, most significant first, m[1] = 1,
\*  e |-> the exponent of the last bit], worth m * 2^e; 0.0 is [m |-> <<>>, e |-> 0].
\* Natural numbers of any size are sequences of bits, most significant first.
MantissaBits == 53

Zeros(n) == [i \in 1..n |-> 0]

RECURSIVE IntBits(_)
IntBits(n) == IF n = 0 THEN <<>> ELSE Append(IntBits(n \div 2), n % 2)

StripZeros(b) ==
  IF \A i \in DOMAIN b : b[i] = 0 THEN <<>>
  ELSE SubSeq(b, CHOOSE i \in DOMAIN b : b[i] = 1 /\ \A j \in 1..(i - 1) : b[j] = 0, Len(b))

\* b + 1
Inc(b) ==
  IF \A i \in DOMAIN b : b[i] = 1 THEN <<1>> \o Zeros(Len(b))
  ELSE LET k == CHOOSE i \in DOMAIN b : b[i] = 0 /\ \A j \in (i + 1)..Len(b) : b[j] = 1
       IN [i \in DOMAIN b |-> IF i < k THEN b[i] ELSE IF i = k THEN 1 ELSE 0]

\* a + b: bit i of the sum is a[i] + b[i] + the carry into i, and there is a carry
\* into i when some lower position j generates one (both bits 1) and every position
\* between j and i passes it on (one bit 1)
AddBits(a, b) ==
  LET n == (IF Len(a) > Len(b) THEN Len(a) ELSE Len(b)) + 1
      x == Zeros(n - Len(a)) \o a
      y == Zeros(n - Len(b)) \o b
      carry(i) == \E j \in (i + 1)..n :
                    /\ x[j] = 1 /\ y[j] = 1
                    /\ \A k \in (i + 1)..(j - 1) : x[k] + y[k] = 1
  IN StripZeros([i \in 1..n |-> (x[i] + y[i] + (IF carry(i) THEN 1 ELSE 0)) % 2])

\* the float nearest to b * 2^e (plus a fraction of 2^e when sticky), b without
\* leading zeros: round to nearest, ties to even
RoundToFloat(b, sticky, e) ==
  IF b = <<>> THEN [m |-> <<>>, e |-> 0]
  ELSE IF Len(b) <= MantissaBits
  THEN [m |-> b \o Zeros(MantissaBits - Len(b)), e |-> e - (MantissaBits - Len(b))]
  ELSE LET keep == SubSeq(b, 1, MantissaBits)
           dropped == Len(b) - MantissaBits
           half == b[MantissaBits + 1] = 1
           more == sticky \/ \E i \in (MantissaBits + 2)..Len(b) : b[i] = 1
           up == half /\ (more \/ keep[MantissaBits] = 1)
           rounded == IF up THEN Inc(keep) ELSE keep
       IN IF Len(rounded) > MantissaBits
          THEN [m |-> SubSeq(rounded, 1, MantissaBits), e |-> e + dropped + 1]
          ELSE [m |-> rounded, e |-> e + dropped]

FloatOfInt(n) == RoundToFloat(IntBits(n), FALSE, 0)

\* (r * 2^k) % t, the remainder of the long division of r by t after k bits
RECURSIVE FractionRest(_, _, _)
FractionRest(r, t, k) == IF k = 0 THEN r ELSE (2 * FractionRest(r, t, k - 1)) % t

\* the first k bits after the point of r / t, for 0 <= r < t
FractionBits(r, t, k) == [i \in 1..k |-> (2 * FractionRest(r, t, i - 1)) \div t]

\* bits after the point that the division computes before rounding: enough for a
\* quotient of two ints below 2^9
DivisionBits == 64

\* count / total on two ints (true division)
FloatDiv(count, total) ==
  RoundToFloat(StripZeros(IntBits(count \div total)
                            \o FractionBits(count % total, total, DivisionBits)),
               FractionRest(count % total, total, DivisionBits) # 0,
               0 - DivisionBits)

\* x * 100
FloatMul100(x) ==
  IF x.m = <<>> THEN x
  ELSE RoundToFloat(AddBits(AddBits(x.m \o Zeros(6), x.m \o Zeros(5)), x.m \o Zeros(2)),
                    FALSE, x.e)

\* x + 20
FloatAdd20(x) ==
  IF x.m = <<>> THEN FloatOfInt(20)
  ELSE LET e == IF x.e < 0 THEN x.e ELSE 0
       IN RoundToFloat(AddBits(x.m \o Zeros(x.e - e), IntBits(20) \o Zeros(0 - e)), FALSE, e)

\* x > y and x >= y
FloatGT(x, y) ==
  IF x.m = <<>> THEN FALSE
  ELSE IF y.m = <<>> THEN TRUE
  ELSE \/ x.e > y.e
       \/ /\ x.e = y.e
          /\ \E i \in 1..MantissaBits :
               x.m[i] > y.m[i] /\ \A j \in 1..(i - 1) : x.m[j] = y.m[j]

FloatGE(x, y) == ~FloatGT(y, x)

\* ------------------------------------------------- the final summary string

\* a sentiment that is a list: Counter([...]) raises TypeError (unhashable type)
Unhashable == "<list>"

CounterRaises(arts) ==
  \E i \in DOMAIN arts : Get(arts[i], "sentiment", "Neutral") = Unhashable

\* (sentiment_counts.get(label, 0) / total) * 100 for every count of every total, and
\* that percentage + 20; the floats are computed once
Percentages ==
  [total \in 1..MaxBatch |->
     [count \in 0..total |->
        LET pct == FloatMul100(FloatDiv(count, total))
        IN [pct |-> pct, plus20 |-> FloatAdd20(pct)]]]

\* as Overall, with a tie of the two percentages taken as slightly negative
\* (negative_pct >= positive_pct in the fourth branch)
Overall_negative_on_tie(positive, negative) ==
  IF FloatGT(positive.pct, negative.plus20) THEN "predominantly positive"
  ELSE IF FloatGT(negative.pct, positive.plus20) THEN "predominantly negative"
  ELSE IF FloatGT(positive.pct, negative.pct) THEN "slightly positive"
  ELSE IF FloatGE(negative.pct, positive.pct) THEN "slightly negative"
  ELSE "neutral"

\* the if/elif chain on positive_pct and negative_pct that picks overall
Overall(positive, negative) ==
  IF FloatGT(positive.pct, negative.plus20) THEN "predominantly positive"
  ELSE IF FloatGT(negative.pct, positive.plus20) THEN "predominantly negative"
  ELSE IF FloatGT(positive.pct, negative.pct) THEN "slightly positive"
  ELSE IF FloatGT(negative.pct, positive.pct) THEN "slightly negative"
  ELSE "neutral"

\* as Outlook, with the thresholds exclusive (> 70, > 50)
Outlook_exclusive(positive, negative) ==
  IF FloatGT(positive.pct, FloatOfInt(70))
  THEN "Potential for growth and positive market response is high."
  ELSE IF FloatGT(positive.pct, FloatOfInt(50))
  THEN "Generally favorable outlook with some caution advised."
  ELSE IF FloatGT(negative.pct, FloatOfInt(70))
  THEN "Significant challenges ahead, close monitoring recommended."
  ELSE IF FloatGT(negative.pct, FloatOfInt(50))
  THEN "Some concerns exist that may impact performance."
  ELSE "Mixed signals with no clear directional trend."

\* the if/elif chain that picks outlook
Outlook(positive, negative) ==
  IF FloatGE(positive.pct, FloatOfInt(70))
  THEN "Potential for growth and positive market response is high."
  ELSE IF FloatGE(positive.pct, FloatOfInt(50))
  THEN "Generally favorable outlook with some caution advised."
  ELSE IF FloatGE(negative.pct, FloatOfInt(70))
  THEN "Significant challenges ahead, close monitoring recommended."
  ELSE IF FloatGE(negative.pct, FloatOfInt(50))
  THEN "Some concerns exist that may impact performance."
  ELSE "Mixed signals with no clear directional trend."

NoCoverage(company) == "No news coverage found for " \o company \o "."

Unable(company) ==
  "Unable to determine sentiment trend for " \o company \o " due to insufficient data."

\* as generate_final_sentiment_analysis, without the total == 0 test: the division
\* raises ZeroDivisionError on the empty batch and the except clause answers
generate_final_sentiment_analysis_no_empty_test(arts, company) ==
  IF CounterRaises(arts) \/ arts = <<>>
  THEN [exc |-> FALSE, val |-> Unable(company)]
  ELSE LET sentiment_counts == SentimentList(arts)
           total == Len(sentiment_counts)
           positive == Percentages[total][Count(sentiment_counts, "Positive")]
           negative == Percentages[total][Count(sentiment_counts, "Negative")]
       IN [exc |-> FALSE,
           val |-> company \o "'s recent news coverage is "
                     \o Overall(positive, negative) \o ". "
                     \o Outlook(positive, negative)]

\* as generate_final_sentiment_analysis, with the TypeError of Counter([...]) left
\* to the caller
generate_final_sentiment_analysis_uncaught(arts, company) ==
  IF CounterRaises(arts)
  THEN [exc |-> TRUE]
  ELSE LET sentiment_counts == SentimentList(arts)
           total == Len(sentiment_counts)
       IN IF total = 0
          THEN [exc |-> FALSE, val |-> NoCoverage(company)]
          ELSE LET positive == Percentages[total][Count(sentiment_counts, "Positive")]
                   negative == Percentages[total][Count(sentiment_counts, "Negative")]
               IN [exc |-> FALSE,
                   val |-> company \o "'s recent news coverage is "
                             \o Overall(positive, negative) \o ". "
                             \o Outlook(positive, negative)]

\* generate_final_sentiment_analysis: the outcome of one call. total is the sum of
\* all the Counter's values, that is the number of articles; neutral_pct is computed
\* and not used.
generate_final_sentiment_analysis(arts, company) ==
  IF CounterRaises(arts)
  THEN [exc |-> FALSE, val |-> Unable(company)]
  ELSE LET sentiment_counts == SentimentList(arts)
           total == Len(sentiment_counts)
       IN IF total = 0
          THEN [exc |-> FALSE, val |-> NoCoverage(company)]
          ELSE LET positive == Percentages[total][Count(sentiment_counts, "Positive")]
                   negative == Percentages[total][Count(sentiment_counts, "Negative")]
               IN [exc |-> FALSE,
                   val |-> company \o "'s recent news coverage is "
                             \o Overall(positive, negative) \o ". "
                             \o Outlook(positive, negative)]

\* ------------------------------------------------------------------ inputs

\* the article dict with the given optional keys; "<missing>" leaves the key out
Missing == "<missing>"

Article(sentiment, topics, title, date) ==
  (IF sentiment = Missing THEN <<>> ELSE [sentiment |-> sentiment])
  @@ (IF topics = <<Missing>> THEN <<>> ELSE [topics |-> topics])
  @@ (IF title = Missing THEN <<>> ELSE [title |-> title])
  @@ (IF date = Missing THEN <<>> ELSE [date |-> date])

\* topic lists of at most n topics over names
TopicLists(names, n) == UNION {[1..k -> names] : k \in 0..n}

\* sentiment-centred inputs: every kind of sentiment value, few topic lists
ArticleInputs ==
  {Article(s, t, Missing, Missing) :
     s \in Labels \cup {"Mixed", "", None, Missing},
     t \in {<<Missing>>, <<"General">>, <<"General", "General">>}}

\* topic-centred inputs: recognised sentiments, every topic list up to MaxTopics
TopicInputs ==
  {Article(s, t, Missing, Missing) :
     s \in {"Positive", "Negative"},
     t \in {<<Missing>>} \cup TopicLists(TopicNames, MaxTopics)}

\* recency-centred inputs: titles and dates vary, sentiments are str or missing
RecencyInputs ==
  {Article(s, t, ti, d) :
     s \in Labels \cup {Missing},
     t \in {<<Missing>>, <<"General">>},
     ti \in {Missing, "Q3 results", "Recall"},
     d \in {"2024-01-05", "2024-06-30"}}

\* inputs of the requests that make both calls: a label or None, few topic lists
CallInputs ==
  {Article(s, t, Missing, Missing) :
     s \in {"Positive", "Negative", None},
     t \in {<<Missing>>, <<"General">>, <<"Earnings", "General">>}}

\* order-centred inputs: articles with several topics of their own
OrderInputs ==
  {Article("Neutral", t, Missing, Missing) : t \in TopicLists({"Earnings", "Lawsuit"}, MaxTopics)}

\* n copies of the article a
Copies(n, a) == [i \in 1..n |-> a]

\* batches for the final summary, told by their counts: c[1] Positive, c[2] Negative
\* and c[3] Neutral articles, then c[4] articles whose sentiment is other
\* ("<missing>": no sentiment key)
SummaryCounts ==
  {c \in (0..MaxBatch) \X (0..MaxBatch) \X (0..MaxBatch) \X (0..MaxOther) :
     c[1] + c[2] + c[3] + c[4] <= MaxBatch}

BatchOf(c, other) ==
  Copies(c[1], Article("Positive", <<Missing>>, Missing, Missing))
    \o Copies(c[2], Article("Negative", <<Missing>>, Missing, Missing))
    \o Copies(c[3], Article("Neutral", <<Missing>>, Missing, Missing))
    \o Copies(c[4], Article(other, <<Missing>>, Missing, Missing))

SummaryBatches ==
  {BatchOf(c, other) : c \in SummaryCounts, other \in {"Mixed", None, Missing, Unhashable}}

\* ------------------------------------------------------------------ actions

NoReport == [exc |-> FALSE, val |-> "<no report>"]

NoSummary == [exc |-> FALSE, val |-> "<no summary>"]

\* the requests served concurrently (see SpecServed): the threads' calls,
\* the attributes of the module-level analyzer and the order the process's string
\* hashes give to each set
served == <<calls, analyzer_attributes, set_order>>

Requests == 1..MaxRequests

Idle == [pc |-> "idle"]

\* no concurrent request; the specifications of a single call leave the hash seed
\* open (analyze denotes the outcomes of every seed)
NoneServed ==
  /\ calls = [r \in Requests |-> Idle]
  /\ analyzer_attributes = <<>>
  /\ set_order = <<>>

Unset == "<unset>"

\* self.temp_dir of the one TextToSpeech instance, made by tempfile.mkdtemp()
TempDir == "/tmp/tmpk3v9"

\* output_file of text_to_speech when the caller gives none, as generate_tts does
OutputFile(tts) == tts.temp_dir \o "/" \o "output.wav"

NoFile == "<no file>"

NoResponse == "<no response>"

IdleHandler ==
  [pc |-> "idle", endpoint |-> Unset, company |-> Unset, articles |-> <<>>,
   invoked |-> {}, text |-> Unset, audio |-> Unset, response |-> NoResponse]

\* the request threads of the API, the files under temp_dir and the module-level
\* TextToSpeech instance
api == <<handlers, files, text_to_speech>>

\* no request at the API
NoApi ==
  /\ handlers = [r \in Requests |-> IdleHandler]
  /\ files = [p \in {OutputFile([temp_dir |-> TempDir])} |-> NoFile]
  /\ text_to_speech = [model |-> None, processor |-> None, temp_dir |-> TempDir]

Init ==
  /\ articles = <<>>
  /\ company_name \in Companies
  /\ report = NoReport
  /\ final_sentiment = NoSummary
  /\ phase = "collecting"
  /\ NoneServed
  /\ NoApi

\* the caller appends one more article to the batch it will pass to analyze
Receive(a) ==
  /\ phase = "collecting"
  /\ Len(articles) < MaxArticles
  /\ articles' = Append(articles, a)
  /\ UNCHANGED <<company_name, report, final_sentiment, phase, served, api>>

\* as Analyze, with all_topics bound to the first article's own topic list instead
\* of a new list, so that all_topics.extend(...) grows that article's list
Analyze_aliasing ==
  /\ phase = "collecting"
  /\ report' \in analyze(articles, company_name)
  /\ phase' = "returned"
  /\ articles' = IF articles # <<>> /\ "topics" \in DOMAIN articles[1]
                 THEN [articles EXCEPT ![1].topics = Flatten(articles)]
                 ELSE articles
  /\ UNCHANGED <<company_name, final_sentiment, served, api>>

\* comparative_analyzer.analyze(articles, company_name) returns
Analyze ==
  /\ phase = "collecting"
  /\ report' \in analyze(articles, company_name)
  /\ phase' = "returned"
  /\ UNCHANGED <<articles, company_name, final_sentiment, served, api>>

\* comparative_analyzer.generate_final_sentiment_analysis(articles, company_name)
\* returns, called on its own or after analyze
GenerateFinal ==
  /\ phase \in {"collecting", "returned"}
  /\ final_sentiment' = generate_final_sentiment_analysis(articles, company_name)
  /\ phase' = "summarised"
  /\ UNCHANGED <<articles, company_name, report, served, api>>

\* the request is over; the analyzer keeps nothing and the next request starts
NextRequest ==
  /\ phase \in {"returned", "summarised"}
  /\ articles' = <<>>
  /\ company_name' \in Companies
  /\ report' = NoReport
  /\ final_sentiment' = NoSummary
  /\ UNCHANGED <<served, api>>
  /\ phase' = "collecting"

Next ==
  \/ \E a \in ArticleInputs : Receive(a)
  \/ Analyze
  \/ NextRequest

Spec == Init /\ [][Next]_vars

NextTopics ==
  \/ \E a \in TopicInputs : Receive(a)
  \/ Analyze
  \/ NextRequest

SpecTopics == Init /\ [][NextTopics]_vars

NextRecency ==
  \/ \E a \in RecencyInputs : Receive(a)
  \/ Analyze
  \/ NextRequest

SpecRecency == Init /\ [][NextRecency]_vars

NextOrder ==
  \/ \E a \in OrderInputs : Receive(a)
  \/ Analyze
  \/ NextRequest

SpecOrder == Init /\ [][NextOrder]_vars

\* requests that call analyze, generate_final_sentiment_analysis or one after the other
NextCalls ==
  \/ \E a \in CallInputs : Receive(a)
  \/ Analyze
  \/ GenerateFinal
  \/ NextRequest

SpecCalls == Init /\ [][NextCalls]_vars

\* calls of generate_final_sentiment_analysis on batches of every composition
InitFinal ==
  /\ articles \in SummaryBatches
  /\ company_name \in Companies
  /\ report = NoReport
  /\ final_sentiment = NoSummary
  /\ phase = "collecting"
  /\ NoneServed
  /\ NoApi

NextFinal ==
  \/ GenerateFinal
  \/ NextRequest

SpecFinal == InitFinal /\ [][NextFinal]_vars

\* ------------------------------------------------------ concurrent requests

\* topics of the batches of the concurrent requests
ServedTopics == {"Earnings", "Lawsuit"}

\* what list(s) is for each set s of these topics in one process: the order follows
\* the process's string hashes and is the same whenever the same set is built the
\* same way, which calls on equal batches do
SetOrders ==
  {f \in [SUBSET ServedTopics -> UNION {ListOf(S) : S \in SUBSET ServedTopics}] :
     \A S \in SUBSET ServedTopics : f[S] \in ListOf(S)}

\* the batches of the concurrent requests: empty, one article, two articles in both
\* orders, a None sentiment (the default report), three articles
ServedBatches ==
  LET pos == Article("Positive", <<"Earnings", "Lawsuit">>, Missing, Missing)
      neg == Article("Negative", <<"Lawsuit">>, Missing, Missing)
      none == Article(None, <<"Earnings">>, Missing, Missing)
  IN {<<>>, <<pos>>, <<pos, neg>>, <<neg, pos>>, <<pos, none>>, <<neg, pos, pos>>}

\* _analyze_topic_overlap in a process whose sets come in the given order
_analyze_topic_overlap_in(order, arts) ==
  CHOOSE to \in _analyze_topic_overlap(arts) :
    \A k \in DOMAIN to.unique_topics :
      to.unique_topics[k].value = order[Range(to.unique_topics[k].value)]

\* _generate_coverage_differences in a process whose sets come in the given order
_generate_coverage_differences_in(order, arts, company) ==
  CHOOSE cd \in _generate_coverage_differences(arts, company) :
    \/ cd.exc
    \/ \A k \in DOMAIN cd.val :
         cd.val[k].impact = PosNegComparison(<<>>, <<>>, company).impact =>
           cd.val[k] = PosNegComparison(Take(order[TopicsOf(arts, "Positive")], 3),
                                        Take(order[TopicsOf(arts, "Negative")], 3), company)

\* a request thread enters analyze_company with its own batch and company name
Call(r, batch, company) ==
  /\ calls[r].pc = "idle"
  /\ calls' = [calls EXCEPT ![r] =
                 [pc |-> "tally", articles |-> batch, company_name |-> company,
                  sentiment_distribution |-> Unset, topic_overlap |-> Unset,
                  report |-> NoReport, final_sentiment |-> NoSummary]]
  /\ UNCHANGED <<articles, company_name, report, final_sentiment, phase,
                 analyzer_attributes, set_order, api>>

\* as TallyStep, with the distribution kept on self by the first call that computes
\* it and reused by every later call
TallyStep_cached_on_self(r) ==
  /\ calls[r].pc = "tally"
  /\ IF calls[r].articles = <<>>
     THEN /\ calls' = [calls EXCEPT ![r].pc = "final",
                                    ![r].report = [exc |-> FALSE, val |-> _get_default_analysis]]
          /\ UNCHANGED analyzer_attributes
     ELSE /\ analyzer_attributes' =
               IF analyzer_attributes = <<>>
               THEN <<_calculate_sentiment_distribution(calls[r].articles)>>
               ELSE analyzer_attributes
          /\ calls' = [calls EXCEPT ![r].pc = "overlap",
                                    ![r].sentiment_distribution = analyzer_attributes'[1]]
  /\ UNCHANGED <<articles, company_name, report, final_sentiment, phase, set_order, api>>

\* analyze up to the tally: the empty batch returns the default report, any other
\* batch gets its distribution in a local
TallyStep(r) ==
  /\ calls[r].pc = "tally"
  /\ calls' = IF calls[r].articles = <<>>
              THEN [calls EXCEPT ![r].pc = "final",
                                 ![r].report = [exc |-> FALSE, val |-> _get_default_analysis]]
              ELSE [calls EXCEPT ![r].pc = "overlap",
                                 ![r].sentiment_distribution =
                                   _calculate_sentiment_distribution(calls[r].articles)]
  /\ UNCHANGED <<articles, company_name, report, final_sentiment, phase,
                 analyzer_attributes, set_order, api>>

\* topic_overlap = self._analyze_topic_overlap(articles)
OverlapStep(r) ==
  /\ calls[r].pc = "overlap"
  /\ calls' = [calls EXCEPT ![r].pc = "coverage",
                            ![r].topic_overlap =
                              _analyze_topic_overlap_in(set_order, calls[r].articles)]
  /\ UNCHANGED <<articles, company_name, report, final_sentiment, phase,
                 analyzer_attributes, set_order, api>>

\* the coverage differences, then the report built from the three locals, or the
\* default report when the step raised
CoverageStep(r) ==
  /\ calls[r].pc = "coverage"
  /\ LET cd == _generate_coverage_differences_in(set_order, calls[r].articles,
                                                 calls[r].company_name)
     IN calls' = [calls EXCEPT
                    ![r].pc = "final",
                    ![r].report =
                      IF cd.exc
                      THEN [exc |-> FALSE, val |-> _get_default_analysis]
                      ELSE [exc |-> FALSE,
                            val |-> [sentiment_distribution |-> calls[r].sentiment_distribution,
                                     topic_overlap |-> calls[r].topic_overlap,
                                     coverage_differences |-> cd.val]]]
  /\ UNCHANGED <<articles, company_name, report, final_sentiment, phase,
                 analyzer_attributes, set_order, api>>

\* final_sentiment = comparative_analyzer.generate_final_sentiment_analysis(...)
FinalStep(r) ==
  /\ calls[r].pc = "final"
  /\ calls' = [calls EXCEPT
                 ![r].pc = "done",
                 ![r].final_sentiment =
                   generate_final_sentiment_analysis(calls[r].articles, calls[r].company_name)]
  /\ UNCHANGED <<articles, company_name, report, final_sentiment, phase,
                 analyzer_attributes, set_order, api>>

\* the response is sent and the thread's locals are gone
Respond(r) ==
  /\ calls[r].pc = "done"
  /\ calls' = [calls EXCEPT ![r] = Idle]
  /\ UNCHANGED <<articles, company_name, report, final_sentiment, phase,
                 analyzer_attributes, set_order, api>>

\* one process, its hash seed drawn at start, serving the requests on the one
\* module-level ComparativeAnalyzer, which has no attribute; the requests of a run
\* ask for the same company
InitServed ==
  /\ articles = <<>>
  /\ company_name \in Companies
  /\ report = NoReport
  /\ final_sentiment = NoSummary
  /\ phase = "collecting"
  /\ calls = [r \in Requests |-> Idle]
  /\ analyzer_attributes = <<>>
  /\ set_order \in SetOrders
  /\ NoApi

NextServed ==
  \E r \in Requests :
    \/ \E batch \in ServedBatches : Call(r, batch, company_name)
    \/ TallyStep(r)
    \/ OverlapStep(r)
    \/ CoverageStep(r)
    \/ FinalStep(r)
    \/ Respond(r)

SpecServed == InitServed /\ [][NextServed]_vars

\* ------------------------------------------------------ the API endpoints

\* the two POST endpoints of api_file.py
Endpoints == {"/analyze", "/tts"}

\* what news_extractor.search_news or get_dummy_articles hands back: no article, or
\* one article as extract_article builds it
ExtractedBatches ==
  {<<>>,
   <<[title |-> "Results", content |-> "Revenue grew.", url |-> "https://news.example/1",
      date |-> "2024-01-05", source |-> "news.example"]>>}

\* what the classifier and the keyword extraction of analyze_article find in a text:
\* analyze_sentiment gives one of the three labels, extract_topics a list of
\* capitalised words or ["General"] * 3
Findings ==
  {[label |-> "Positive", topics |-> <<"Revenue">>],
   [label |-> "Negative", topics |-> <<"General", "General", "General">>]}

\* summarize_text on a text of one short sentence: the sentence, or on an error of
\* the tokenizer text[:100] + "..."; on the empty text the two fixed strings
summarize_text(text) ==
  IF text = ""
  THEN {"No content available for summarization.", "Summary unavailable."}
  ELSE {text, text \o "..."}

\* sentiment_analyzer.analyze_article(article) for one finding and one summary:
\* {**article, 'sentiment': ..., 'topics': ..., 'summary': ...}
analyze_article(article, finding, summary) ==
  [k \in DOMAIN article \cup {"sentiment", "topics", "summary"} |->
     IF k = "sentiment" THEN finding.label
     ELSE IF k = "topics" THEN finding.topics
     ELSE IF k = "summary"
     THEN IF "summary" \in DOMAIN article /\ article.summary # "" THEN article.summary
          ELSE summary
     ELSE article[k]]

\* the analyses analyze_article can give of each article of a batch
AnalyzedBatches(batch) ==
  {analyzed \in [DOMAIN batch ->
                   UNION {{analyze_article(batch[i], f, s) :
                             f \in Findings, s \in summarize_text(Get(batch[i], "content", ""))} :
                          i \in DOMAIN batch}] :
     \A i \in DOMAIN batch :
       \E f \in Findings, s \in summarize_text(Get(batch[i], "content", "")) :
         analyzed[i] = analyze_article(batch[i], f, s)}

\* the Article models of the response
article_models(analyzed) ==
  [i \in DOMAIN analyzed |->
     [title |-> Get(analyzed[i], "title", "Untitled"),
      summary |-> Get(analyzed[i], "summary", ""),
      sentiment |-> Get(analyzed[i], "sentiment", "Neutral"),
      topics |-> Get(analyzed[i], "topics", <<>>),
      url |-> Get(analyzed[i], "url", ""),
      date |-> Get(analyzed[i], "date", None),
      source |-> Get(analyzed[i], "source", None)]]

HTTPException(status_code, detail) == [status_code |-> status_code, detail |-> detail]

\* str(e) of an HTTPException: "{status_code}: {detail}" where the installed
\* framework defines __str__ on it, and "" where it does not (the exception is
\* built without positional arguments)
StrOfHTTPException(e) == {ToString(e.status_code) \o ": " \o e.detail, ""}

\* the response the framework sends for an HTTPException that leaves the handler
ErrorResponse(e) == [status |-> e.status_code, detail |-> e.detail]

\* what leaves analyze_company when the batch is empty: the HTTPException of line
\* 62 is raised inside the try, caught by except Exception and raised again as
\* HTTPException(status_code=500, detail=str(e))
NoArticlesRaised(company) ==
  {HTTPException(500, d) :
     d \in StrOfHTTPException(HTTPException(404, "No news articles found for " \o company))}

\* what leaves generate_tts when analyze_company raised e: except Exception again
TtsRaised(e) == {HTTPException(500, d) : d \in StrOfHTTPException(e)}

\* the body of analyze_company's normal return
CompanyNewsAnalysis(company, analyzed, comparative_sentiment, final) ==
  [company |-> company,
   articles |-> article_models(analyzed),
   comparative_sentiment_score |-> comparative_sentiment,
   final_sentiment_analysis |-> final,
   audio_path |-> None]

\* text_for_tts of generate_tts (the Hindi words of the f-string in Latin letters)
text_for_tts(company, final) == company \o " ki samachar vishleshan. " \o final

\* translate_to_hindi: the translation, or the text itself when the translator fails
translate_to_hindi(text) == {"<hi>" \o text, text}

\* the sine wave of _create_dummy_audio
DummyAudio == [sine |-> "440 Hz"]

\* the audio text_to_speech writes for a text: the model's speech of the Hindi text,
\* or the dummy audio when no model is loaded or the generation raises
Synthesized(tts, text) ==
  {DummyAudio} \cup
    (IF tts.model # None
     THEN {[speech_of |-> h] : h \in translate_to_hindi(text)}
     ELSE {})

analysis == <<articles, company_name, report, final_sentiment, phase, served>>

\* a POST request arrives at one of the two endpoints and a thread of the pool
\* enters its handler
Post(r, endpoint, company) ==
  /\ handlers[r].pc = "idle"
  /\ handlers' = [handlers EXCEPT ![r].pc = "extract",
                                  ![r].endpoint = endpoint,
                                  ![r].company = company]
  /\ UNCHANGED <<analysis, files, text_to_speech>>

\* analyze_company up to "if not articles": the extractor returns a batch; on the
\* empty batch the handler (and generate_tts around it) ends with the exception
Extract(r, batch) ==
  /\ handlers[r].pc = "extract"
  /\ IF batch = <<>>
     THEN \E e \in NoArticlesRaised(handlers[r].company) :
            \E out \in (IF handlers[r].endpoint = "/tts" THEN TtsRaised(e) ELSE {e}) :
              handlers' = [handlers EXCEPT ![r].pc = "responded",
                                           ![r].response = ErrorResponse(out)]
     ELSE handlers' = [handlers EXCEPT ![r].pc = "analyze", ![r].articles = batch]
  /\ UNCHANGED <<analysis, files, text_to_speech>>

\* the rest of analyze_company: analyze_article on every article, analyze, the final
\* summary, the response; generate_tts goes on with the summary in text_for_tts
AnalyzeCompany(r) ==
  /\ handlers[r].pc = "analyze"
  /\ \E analyzed \in AnalyzedBatches(handlers[r].articles) :
       \E comparative \in analyze(analyzed, handlers[r].company) :
         LET final == generate_final_sentiment_analysis(analyzed, handlers[r].company).val
             body == CompanyNewsAnalysis(handlers[r].company, analyzed, comparative.val, final)
         IN handlers' =
              IF handlers[r].endpoint = "/analyze"
              THEN [handlers EXCEPT
                      ![r].pc = "responded",
                      ![r].articles = analyzed,
                      ![r].invoked = {"sentiment_analyzer", "comparative_analyzer"},
                      ![r].response = [status |-> 200, body |-> body]]
              ELSE [handlers EXCEPT
                      ![r].pc = "synthesize",
                      ![r].articles = analyzed,
                      ![r].invoked = {"sentiment_analyzer", "comparative_analyzer"},
                      ![r].text = text_for_tts(handlers[r].company, final)]
  /\ UNCHANGED <<analysis, files, text_to_speech>>

\* text_to_speech up to the write: the translation and the audio, in locals
Synthesize(r) ==
  /\ handlers[r].pc = "synthesize"
  /\ \E audio \in Synthesized(text_to_speech, handlers[r].text) :
       handlers' = [handlers EXCEPT ![r].pc = "write", ![r].audio = audio]
  /\ UNCHANGED <<analysis, files, text_to_speech>>

\* wavfile.write(output_file, ...) of text_to_speech or of _create_dummy_audio
Write(r) ==
  /\ handlers[r].pc = "write"
  /\ files' = [files EXCEPT ![OutputFile(text_to_speech)] = handlers[r].audio]
  /\ handlers' = [handlers EXCEPT ![r].pc = "return"]
  /\ UNCHANGED <<analysis, text_to_speech>>

\* text_to_speech returns output_file and generate_tts answers with it
ReturnPath(r) ==
  /\ handlers[r].pc = "return"
  /\ handlers' = [handlers EXCEPT
                    ![r].pc = "responded",
                    ![r].response =
                      [status |-> 200,
                       body |-> [company |-> handlers[r].company,
                                 audio_path |-> OutputFile(text_to_speech)]]]
  /\ UNCHANGED <<analysis, files, text_to_speech>>

\* the API process after its module-level objects are built: the TTS model is loaded
\* or, when loading raised, model and processor stay None
InitApi ==
  /\ articles = <<>>
  /\ company_name \in Companies
  /\ report = NoReport
  /\ final_sentiment = NoSummary
  /\ phase = "collecting"
  /\ NoneServed
  /\ handlers = [r \in Requests |-> IdleHandler]
  /\ \E m \in {"coqui/xtts-v2", None} :
       text_to_speech = [model |-> m, processor |-> m, temp_dir |-> TempDir]
  /\ files = [p \in {OutputFile(text_to_speech)} |-> NoFile]

NextApi ==
  \E r \in Requests :
    \/ \E endpoint \in Endpoints, company \in Companies : Post(r, endpoint, company)
    \/ \E batch \in ExtractedBatches : Extract(r, batch)
    \/ AnalyzeCompany(r)
    \/ Synthesize(r)
    \/ Write(r)
    \/ ReturnPath(r)

SpecApi == InitApi /\ [][NextApi]_vars

\* ------------------------------------------------------- reading a report

Returned == phase = "returned"

Dist == report.val.sentiment_distribution

Common == Range(report.val.topic_overlap.common_topics)

Coverage == report.val.coverage_differences

\* unique_topics.get(key, []) on the returned report
UniqueOf(key) ==
  LET d == report.val.topic_overlap.unique_topics
  IN IF \E i \in DOMAIN d : d[i].key = key
     THEN d[CHOOSE i \in DOMAIN d : d[i].key = key].value
     ELSE <<>>

TopicList(pos) == Get(articles[pos], "topics", <<>>)

\* some step of analyze raises on this batch: the only statement that can is the
\* .lower() of the recency contrast
StepFails == LowerRaises(articles)

\* list(S)[:3] for a set S
FirstThreeOf(S) == {Take(l, 3) : l \in ListOf(S)}

TrendLabels ==
  {"stable", "improving", "deteriorating", "slightly worsening", "slightly improving",
   "shifting"}

\* which of the three comparisons c is, told by its impact sentence
IsPosNeg(c) == c.impact = PosNegComparison(<<>>, <<>>, company_name).impact

IsRecency(c) ==
  \E tr \in TrendLabels :
    c.impact = "This suggests a potential " \o tr \o " trend in " \o company_name
                 \o "'s news coverage."

IsTopics(c) == c.impact = TopicsComparison(<<>>, company_name).impact

Rank(c) == IF IsPosNeg(c) THEN 1 ELSE IF IsRecency(c) THEN 2 ELSE IF IsTopics(c) THEN 3 ELSE 0

HasPosNeg == \E k \in DOMAIN Coverage : IsPosNeg(Coverage[k])

HasRecency == \E k \in DOMAIN Coverage : IsRecency(Coverage[k])

HasTopics == \E k \in DOMAIN Coverage : IsTopics(Coverage[k])

\* lists of at most 3 distinct elements of S
UpTo3Of(S) ==
  {l \in UNION {[1..k -> S] : k \in 0..3} : \A i, j \in DOMAIN l : l[i] = l[j] => i = j}

FirstIndex(l, x) == CHOOSE i \in DOMAIN l : l[i] = x /\ \A j \in 1..(i - 1) : l[j] # x

\* x ranks before y: more occurrences in l, or as many and an earlier first occurrence
RanksBefore(l, x, y) ==
  \/ Count(l, x) > Count(l, y)
  \/ Count(l, x) = Count(l, y) /\ FirstIndex(l, x) < FirstIndex(l, y)

\* r is the top min(3, distinct) of l by that ranking
IsTop3(r, l) ==
  /\ Len(r) = (IF Cardinality(Range(l)) < 3 THEN Cardinality(Range(l)) ELSE 3)
  /\ \A k, m \in DOMAIN r : k < m => RanksBefore(l, r[k], r[m])
  /\ \A x \in Range(l) \ Range(r) : \A k \in DOMAIN r : RanksBefore(l, r[k], x)

\* ------------------------------------------------------------------ claims

\* C1: analyze never propagates an exception, and whenever a step raises (here the
\* coverage differences, after the tally and the overlap have succeeded), the value
\* returned is exactly the default report, with nothing of the earlier steps in it.
C1_DefaultOnAnyFailure ==
  Returned =>
    /\ report.exc = FALSE
    /\ StepFails =>
         /\ Dist = [positive |-> 0, negative |-> 0, neutral |-> 0]
         /\ Coverage = <<>>
         /\ report.val.topic_overlap = [common_topics |-> <<>>, unique_topics |-> <<>>]

\* C1 witness: the coverage step raised after the tally and the overlap had produced
\* non-default results, and the default report was returned
C1_Witness ==
  /\ Returned
  /\ _calculate_sentiment_distribution(articles).positive > 0
  /\ \E to \in _analyze_topic_overlap(articles) : to.common_topics # <<>>
  /\ \E cd \in _generate_coverage_differences(articles, company_name) : cd.exc
  /\ report.val = _get_default_analysis

\* C2: for a non-empty batch whose sentiments are each absent or one of Positive,
\* Negative, Neutral, the three counts sum to the number of articles, an absent
\* sentiment being counted in neutral.
C2_CountsSumToBatchSize ==
  (/\ Returned
   /\ articles # <<>>
   /\ \A i \in DOMAIN articles :
        "sentiment" \in DOMAIN articles[i] => articles[i].sentiment \in Labels)
  => /\ Dist.positive + Dist.negative + Dist.neutral = Len(articles)
     /\ Dist.neutral =
          Cardinality({i \in DOMAIN articles :
                         \/ "sentiment" \notin DOMAIN articles[i]
                         \/ articles[i].sentiment = "Neutral"})

\* C2 witness: a returned batch with an article without sentiment and one labelled
C2_Witness ==
  /\ Returned
  /\ Len(articles) = MaxArticles
  /\ \A i \in DOMAIN articles :
       "sentiment" \in DOMAIN articles[i] => articles[i].sentiment \in Labels
  /\ \E i \in DOMAIN articles : "sentiment" \notin DOMAIN articles[i]
  /\ \E i \in DOMAIN articles : Get(articles[i], "sentiment", None) = "Positive"
  /\ Dist.neutral > 0

\* C3 (as claimed): an article whose sentiment is present but unrecognised or falsy
\* ("", None) is counted in the neutral bucket and does not make the analysis fail:
\* neutral is the number of articles whose sentiment is not Positive or Negative.
C3_UnrecognizedIsNeutral ==
  Returned =>
    Dist.neutral =
      Cardinality({i \in DOMAIN articles :
                     Get(articles[i], "sentiment", "Neutral") \notin {"Positive", "Negative"}})

\* C4 (as claimed): a topic in exactly one article's list, however often repeated in
\* it, is never in common_topics; a topic in two or more articles' lists always is.
C4_CommonIffTwoArticles ==
  Returned =>
    \A t \in TopicNames :
      LET n == Cardinality({i \in DOMAIN articles : t \in Range(TopicList(i))})
      IN /\ n = 1 => t \notin Common
         /\ n >= 2 => t \in Common

\* C5 (as claimed): for every article position, the topics listed under its
\* unique_topics label are absent from common_topics, and every topic of its own
\* list is in common_topics or under its label.
C5_Partition ==
  Returned =>
    \A i \in DOMAIN articles :
      /\ Range(UniqueOf(ArticleLabel(i))) \cap Common = {}
      /\ Range(TopicList(i)) \subseteq Common \cup Range(UniqueOf(ArticleLabel(i)))

\* C6: analyze on the empty list returns exactly the default report, and returns it
\* normally.
C6_EmptyBatchDefault ==
  (Returned /\ articles = <<>>) =>
    /\ report.exc = FALSE
    /\ Dist = [positive |-> 0, negative |-> 0, neutral |-> 0]
    /\ Coverage = <<>>
    /\ report.val.topic_overlap = [common_topics |-> <<>>, unique_topics |-> <<>>]

\* C6 witness: analyze has returned for an empty batch
C6_Witness == Returned /\ articles = <<>> /\ report.val = _get_default_analysis

\* C7: coverage_differences holds at most three comparisons, in the relative order
\* positive-vs-negative, recency, most-discussed topics, each at most once, and a
\* comparison whose precondition does not hold is absent.
C7_FixedOrder ==
  Returned =>
    /\ Len(Coverage) <= 3
    /\ \A k \in DOMAIN Coverage : Rank(Coverage[k]) \in 1..3
    /\ \A k, m \in DOMAIN Coverage : k < m => Rank(Coverage[k]) < Rank(Coverage[m])
    /\ HasPosNeg =>
         /\ \E i \in DOMAIN articles : Get(articles[i], "sentiment", None) = "Positive"
         /\ \E i \in DOMAIN articles : Get(articles[i], "sentiment", None) = "Negative"
    /\ HasRecency => Len(articles) >= 2
    /\ HasTopics => Flatten(articles) # <<>>

\* C7 witness: a report with all three comparisons
C7_Witness ==
  /\ Returned
  /\ Len(Coverage) = 3
  /\ IsPosNeg(Coverage[1]) /\ IsRecency(Coverage[2]) /\ IsTopics(Coverage[3])

\* C8 (as claimed): the positive-vs-negative contrast is in the report exactly when
\* the batch has a Positive and a Negative article, and each side then names at most
\* 3 distinct topics of the articles of that sentiment.
C8_PosNegExactlyWhen ==
  Returned =>
    /\ HasPosNeg <=>
         /\ \E i \in DOMAIN articles : Get(articles[i], "sentiment", None) = "Positive"
         /\ \E i \in DOMAIN articles : Get(articles[i], "sentiment", None) = "Negative"
    /\ \A k \in DOMAIN Coverage :
         IsPosNeg(Coverage[k]) =>
           \E p \in UpTo3Of(TopicsOf(articles, "Positive")),
              n \in UpTo3Of(TopicsOf(articles, "Negative")) :
             Coverage[k].comparison = PosNegComparison(p, n, company_name).comparison

\* C9 (as claimed): the recency contrast is in the report exactly when the batch has
\* at least 2 articles, it compares the article at position 0 with the one at
\* position 1 whatever the dates, and a single-article batch has no recency contrast
\* but has the most-discussed-topics comparison when the article has a topic.
C9_RecencyExactlyWhen ==
  Returned =>
    /\ HasRecency <=> Len(articles) >= 2
    /\ \A k \in DOMAIN Coverage :
         IsRecency(Coverage[k]) =>
           Coverage[k] = RecencyComparison(articles[1], articles[2], company_name)
    /\ Len(articles) = 1 => (~HasRecency /\ (TopicList(1) # <<>> => HasTopics))

\* C10 (as claimed): the most-discussed-topics comparison is in the report exactly
\* when the flattened topic list is non-empty, and lists the top min(3, distinct)
\* topics by occurrence count descending, ties by first occurrence.
C10_MostDiscussedExactlyWhen ==
  Returned =>
    /\ HasTopics <=> Flatten(articles) # <<>>
    /\ \A k \in DOMAIN Coverage :
         IsTopics(Coverage[k]) =>
           \E r \in UpTo3Of(Range(Flatten(articles))) :
             /\ IsTop3(r, Flatten(articles))
             /\ Coverage[k].comparison = TopicsComparison(r, company_name).comparison

\* the trend table of the 3x3 space of recognised labels, equality first
TrendTable(recent, older) ==
  IF recent = older THEN "stable"
  ELSE IF recent = "Positive" THEN "improving"
  ELSE IF recent = "Negative" THEN "deteriorating"
  ELSE IF older = "Positive" THEN "slightly worsening"
  ELSE "slightly improving"

\* the impact sentence of a recency contrast that carries the trend label tr
TrendImpact(tr) ==
  "This suggests a potential " \o tr \o " trend in " \o company_name \o "'s news coverage."

\* the labels handed to the trend rule: recent_article.get('sentiment') and
\* older_article.get('sentiment')
RecentLabel == Get(articles[1], "sentiment", None)

OlderLabel == Get(articles[2], "sentiment", None)

\* C11: when the first two articles carry recognised labels, the trend label of the
\* recency contrast is the one of the table (equal labels stable, Positive vs other
\* improving, Negative vs other deteriorating, Neutral vs Positive slightly worsening,
\* Neutral vs Negative slightly improving), and it is never "shifting".
C11_TrendTable ==
  (/\ Returned
   /\ Len(articles) >= 2
   /\ "sentiment" \in DOMAIN articles[1] /\ articles[1].sentiment \in Labels
   /\ "sentiment" \in DOMAIN articles[2] /\ articles[2].sentiment \in Labels)
  => /\ \E k \in DOMAIN Coverage :
          Coverage[k].impact = TrendImpact(TrendTable(RecentLabel, OlderLabel))
     /\ \A k \in DOMAIN Coverage : Coverage[k].impact # TrendImpact("shifting")

\* C11 witness: a report whose recency contrast compares a Neutral recent article
\* with a Negative older one and says "slightly improving"
C11_Witness ==
  /\ Returned
  /\ Len(articles) >= 2
  /\ RecentLabel = "Neutral" /\ OlderLabel = "Negative"
  /\ \E k \in DOMAIN Coverage : Coverage[k].impact = TrendImpact("slightly improving")

\* C12 (as claimed): whenever the recency contrast is emitted for two unequal labels
\* of which one is not Positive, Negative or Neutral, its trend label is "shifting".
C12_ShiftingFallback ==
  (/\ Returned
   /\ HasRecency
   /\ RecentLabel # OlderLabel
   /\ (RecentLabel \notin Labels \/ OlderLabel \notin Labels))
  => \E k \in DOMAIN Coverage : Coverage[k].impact = TrendImpact("shifting")

\* ------------------------------------------------- reading a final summary

Summarised == phase = "summarised"

\* the numbers of articles tallied as Positive, Negative and Neutral (an article
\* without sentiment is tallied as Neutral), and the size of the batch
PositiveCount ==
  Cardinality({i \in DOMAIN articles : Get(articles[i], "sentiment", "Neutral") = "Positive"})

NegativeCount ==
  Cardinality({i \in DOMAIN articles : Get(articles[i], "sentiment", "Neutral") = "Negative"})

NeutralCount ==
  Cardinality({i \in DOMAIN articles : Get(articles[i], "sentiment", "Neutral") = "Neutral"})

Total == Len(articles)

Tones ==
  {"predominantly positive", "predominantly negative", "slightly positive",
   "slightly negative", "neutral"}

Outlooks ==
  {"Potential for growth and positive market response is high.",
   "Generally favorable outlook with some caution advised.",
   "Significant challenges ahead, close monitoring recommended.",
   "Some concerns exist that may impact performance.",
   "Mixed signals with no clear directional trend."}

\* the final sentence with the given tone and outlook
Sentence(tone, outlook) ==
  company_name \o "'s recent news coverage is " \o tone \o ". " \o outlook

\* the tone by first match on the exact percentages 100 * count / Total
\* (a > b + 20 on percentages is 100 * a > 100 * b + 20 * Total on counts)
ToneOfCounts ==
  IF 100 * PositiveCount > 100 * NegativeCount + 20 * Total THEN "predominantly positive"
  ELSE IF 100 * NegativeCount > 100 * PositiveCount + 20 * Total THEN "predominantly negative"
  ELSE IF PositiveCount > NegativeCount THEN "slightly positive"
  ELSE IF NegativeCount > PositiveCount THEN "slightly negative"
  ELSE "neutral"

\* the outlook by first match on the exact percentages, thresholds inclusive
OutlookOfCounts ==
  IF 100 * PositiveCount >= 70 * Total
  THEN "Potential for growth and positive market response is high."
  ELSE IF 100 * PositiveCount >= 50 * Total
  THEN "Generally favorable outlook with some caution advised."
  ELSE IF 100 * NegativeCount >= 70 * Total
  THEN "Significant challenges ahead, close monitoring recommended."
  ELSE IF 100 * NegativeCount >= 50 * Total
  THEN "Some concerns exist that may impact performance."
  ELSE "Mixed signals with no clear directional trend."

\* C13: generate_final_sentiment_analysis on the empty batch returns exactly
\* "No news coverage found for {company_name}." with the company's name in it.
C13_EmptyBatchNoCoverage ==
  (Summarised /\ articles = <<>>) =>
    final_sentiment =
      [exc |-> FALSE, val |-> "No news coverage found for " \o company_name \o "."]

\* C13 witness: the summary of an empty batch has been returned
C13_Witness ==
  /\ Summarised
  /\ articles = <<>>
  /\ final_sentiment.val = "No news coverage found for " \o company_name \o "."

\* C14 (as claimed): whenever no article of the batch is tallied as Positive, Negative
\* or Neutral, a non-empty batch included, the summary is the no-coverage message
\* and never a tone/outlook sentence (batches on which the tally itself fails aside).
C14_ZeroCountsNoCoverage ==
  (/\ Summarised
   /\ ~CounterRaises(articles)
   /\ PositiveCount = 0 /\ NegativeCount = 0 /\ NeutralCount = 0)
  => final_sentiment.val = "No news coverage found for " \o company_name \o "."

\* C15 (as claimed): for every non-empty batch the tone of the final sentence is the
\* first match on the percentages of the batch: more than 20 points ahead gives
\* "predominantly", ahead by 20 points or less gives "slightly", a tie "neutral".
C15_ToneByPercentages ==
  (Summarised /\ Total > 0 /\ ~CounterRaises(articles)) =>
    \E outlook \in Outlooks : final_sentiment.val = Sentence(ToneOfCounts, outlook)

\* C16: for every non-empty batch the outlook of the final sentence is the first
\* match of: positive >= 70% growth, positive >= 50% generally favorable, negative
\* >= 70% significant challenges, negative >= 50% some concerns, else mixed signals.
C16_OutlookByThresholds ==
  (Summarised /\ Total > 0 /\ ~CounterRaises(articles)) =>
    \E tone \in Tones : final_sentiment.val = Sentence(tone, OutlookOfCounts)

\* C16 witness: a batch that is exactly 70% Positive got the growth outlook
C16_Witness ==
  /\ Summarised
  /\ Total = 10 /\ PositiveCount = 7
  /\ \E tone \in Tones :
       final_sentiment.val =
         Sentence(tone, "Potential for growth and positive market response is high.")

\* C17: generate_final_sentiment_analysis never propagates an exception, and when
\* a step of it fails the string returned is "Unable to determine sentiment trend
\* for {company} due to insufficient data."
C17_FallbackSentence ==
  Summarised =>
    /\ final_sentiment.exc = FALSE
    /\ CounterRaises(articles) =>
         final_sentiment.val = "Unable to determine sentiment trend for " \o company_name
                                 \o " due to insufficient data."

\* C17 witness: the tally failed on a batch and the fallback sentence was returned
C17_Witness ==
  /\ Summarised
  /\ CounterRaises(articles)
  /\ PositiveCount > 0
  /\ final_sentiment.val = "Unable to determine sentiment trend for " \o company_name
                             \o " due to insufficient data."

\* C20 (as claimed): the topics listed under an article's unique_topics label come in
\* the same relative order as in the article's own topic list.
C20_UniqueKeepsOrder ==
  Returned =>
    \A i \in DOMAIN articles :
      LET unique == UniqueOf(ArticleLabel(i))
      IN \A a, b \in DOMAIN unique :
           a < b =>
             /\ unique[a] \in Range(TopicList(i)) /\ unique[b] \in Range(TopicList(i))
             /\ FirstIndex(TopicList(i), unique[a]) < FirstIndex(TopicList(i), unique[b])

\* C18: a step in which analyze or generate_final_sentiment_analysis returns, on the
\* normal path or with the default report or the fallback sentence, leaves the
\* article list and every field of every article as they were.
C18_InputUnchanged ==
  [][(phase' \in {"returned", "summarised"} /\ phase' # phase) => articles' = articles]_vars

\* C18 witness: analyze has returned its default report, after a step raised, on a
\* batch with an article of two topics
C18_Witness ==
  /\ Returned
  /\ StepFails
  /\ report.val = _get_default_analysis
  /\ \E i \in DOMAIN articles : Len(TopicList(i)) = 2

\* what analyze returns for a batch when the call runs alone in the process
AnalyzeAlone(arts, company) ==
  IF arts = <<>>
  THEN [exc |-> FALSE, val |-> _get_default_analysis]
  ELSE CHOOSE res \in analyze(arts, company) :
         \/ res.val = _get_default_analysis
         \/ /\ res.val.topic_overlap = _analyze_topic_overlap_in(set_order, arts)
            /\ res.val.coverage_differences =
                 _generate_coverage_differences_in(set_order, arts, company).val

\* C19: whatever the interleaving of the requests' steps, a call of analyze or of
\* generate_final_sentiment_analysis returns what the same call on the same batch
\* returns alone, and two calls with equal inputs return equal results.
C19_CallsIndependent ==
  /\ \A r \in Requests :
       /\ calls[r].pc \in {"final", "done"} =>
            calls[r].report = AnalyzeAlone(calls[r].articles, calls[r].company_name)
       /\ calls[r].pc = "done" =>
            calls[r].final_sentiment =
              generate_final_sentiment_analysis(calls[r].articles, calls[r].company_name)
  /\ \A r1, r2 \in Requests :
       (/\ calls[r1].pc = "done" /\ calls[r2].pc = "done"
        /\ calls[r1].articles = calls[r2].articles
        /\ calls[r1].company_name = calls[r2].company_name)
       => /\ calls[r1].report = calls[r2].report
          /\ calls[r1].final_sentiment = calls[r2].final_sentiment

\* C19 witness: a request has both results of a batch of several articles while
\* another request, on another batch, is between two steps of analyze
C19_Witness ==
  \E r1, r2 \in Requests :
    /\ calls[r1].pc = "done"
    /\ Len(calls[r1].articles) >= 2
    /\ calls[r1].report.val # _get_default_analysis
    /\ calls[r2].pc = "coverage"
    /\ calls[r2].articles # calls[r1].articles

\* C21 (as claimed): unique_topics has the key "Article {i+1}" exactly when article i
\* has a topic that is not in common_topics, no entry is an empty list, and the keys
\* come in increasing article order.
C21_SparseMapping ==
  Returned =>
    LET unique_topics == report.val.topic_overlap.unique_topics
    IN /\ \A i \in DOMAIN articles :
            (\E k \in DOMAIN unique_topics : unique_topics[k].key = ArticleLabel(i))
              <=> Range(TopicList(i)) \ Common # {}
       /\ \A k \in DOMAIN unique_topics : unique_topics[k].value # <<>>
       /\ \A k, m \in DOMAIN unique_topics :
            k < m => \E i, j \in DOMAIN articles :
                       /\ i < j
                       /\ unique_topics[k].key = ArticleLabel(i)
                       /\ unique_topics[m].key = ArticleLabel(j)

\* the two sentiments the comparison string of the recency contrast displays:
\* .get('sentiment', 'Neutral') of the first two articles
RecentDisplayed == Get(articles[1], "sentiment", "Neutral")

OlderDisplayed == Get(articles[2], "sentiment", "Neutral")

\* C22 (as claimed): the trend label of an emitted recency contrast is the trend rule
\* applied to the two sentiments its comparison string displays, an absent sentiment
\* taken as Neutral (recent article without sentiment, older one Neutral: "stable").
C22_TrendOfDisplayed ==
  (Returned /\ HasRecency)
  => \E k \in DOMAIN Coverage :
       Coverage[k].impact
         = TrendImpact(_get_trend_description(RecentDisplayed, OlderDisplayed))

NegativeTones == {"slightly negative", "predominantly negative"}

\* C25: in every final sentence of a non-empty batch the tone and the outlook agree:
\* the growth outlook comes only with "predominantly positive", the
\* significant-challenges outlook only with "predominantly negative", the
\* generally-favorable outlook never with a negative tone, and the some-concerns
\* outlook only with a negative tone.
C25_ToneOutlookConsistent ==
  (Summarised /\ Total > 0) =>
    \A tone \in Tones, outlook \in Outlooks :
      final_sentiment.val = Sentence(tone, outlook) =>
        /\ outlook = "Potential for growth and positive market response is high."
             => tone = "predominantly positive"
        /\ outlook = "Significant challenges ahead, close monitoring recommended."
             => tone = "predominantly negative"
        /\ outlook = "Generally favorable outlook with some caution advised."
             => tone \notin NegativeTones
        /\ outlook = "Some concerns exist that may impact performance."
             => tone \in NegativeTones

\* C25 witness: a batch split evenly between Positive and Negative got the
\* generally-favorable outlook with the tone "neutral"
C25_Witness ==
  /\ Summarised
  /\ PositiveCount > 0 /\ PositiveCount = NegativeCount /\ Total = 2 * PositiveCount
  /\ final_sentiment.val
       = Sentence("neutral", "Generally favorable outlook with some caution advised.")

\* C25, second witness: a batch with 5 Negative of 9 got the some-concerns outlook
\* with the tone "slightly negative"
C25_SomeConcerns ==
  /\ Summarised
  /\ Total = 9 /\ NegativeCount = 5 /\ PositiveCount = 4
  /\ final_sentiment.val
       = Sentence("slightly negative", "Some concerns exist that may impact performance.")

\* ------------------------------------------------- reading the API's responses

Responded(r) == handlers[r].pc = "responded"

\* the request got no article: it has responded without reaching the analysis
GotNoArticles(r) == Responded(r) /\ handlers[r].articles = <<>>

\* C23 (as claimed): when the acquisition returns no article, /analyze answers with
\* status 404 and detail "No news articles found for {company_name}", and neither
\* the sentiment analyzer nor the comparative analyzer is invoked for the request.
C23_NoArticles404 ==
  \A r \in Requests :
    (GotNoArticles(r) /\ handlers[r].endpoint = "/analyze") =>
      /\ handlers[r].response =
           [status |-> 404,
            detail |-> "No news articles found for " \o handlers[r].company]
      /\ handlers[r].invoked = {}

\* a /tts request has been answered with a path
PathReturned(r) ==
  /\ Responded(r)
  /\ handlers[r].endpoint = "/tts"
  /\ handlers[r].response.status = 200

\* the /tts requests received so far are for different companies
DifferentCompanies ==
  \A q, r \in Requests :
    (q # r /\ handlers[q].endpoint = "/tts" /\ handlers[r].endpoint = "/tts")
      => handlers[q].company # handlers[r].company

\* C24 (as claimed): the file a /tts response's audio_path designates holds the
\* audio synthesized for that request's own text, also when /tts requests for
\* different companies are served concurrently: no other request overwrites it
\* before or after the path is returned.
C24_AudioIsOwn ==
  DifferentCompanies =>
    \A r \in Requests :
      PathReturned(r) =>
        files[handlers[r].response.body.audio_path] = handlers[r].audio

\* ------------------------------------- the same properties where no step raises

\* the partition property of C5 on every report of a call in which no step raised
PartitionWhenNoStepFails == (Returned /\ ~StepFails) => C5_Partition

\* C8's statement on every report of a call in which no step raised; each side is
\* list(set)[:3], that is min(3, size) distinct topics of the union
PosNegWhenNoStepFails ==
  (Returned /\ ~StepFails) =>
    /\ HasPosNeg <=>
         /\ \E i \in DOMAIN articles : Get(articles[i], "sentiment", None) = "Positive"
         /\ \E i \in DOMAIN articles : Get(articles[i], "sentiment", None) = "Negative"
    /\ \A k \in DOMAIN Coverage :
         IsPosNeg(Coverage[k]) =>
           \E p \in FirstThreeOf(TopicsOf(articles, "Positive")),
              n \in FirstThreeOf(TopicsOf(articles, "Negative")) :
             Coverage[k].comparison = PosNegComparison(p, n, company_name).comparison

\* C9's statement on every report of a call in which no step raised
RecencyWhenNoStepFails == (Returned /\ ~StepFails) => C9_RecencyExactlyWhen

\* C10's statement on every report of a call in which no step raised
MostDiscussedWhenNoStepFails == (Returned /\ ~StepFails) => C10_MostDiscussedExactlyWhen

\* the second half of C4 on every report of a call in which no step raised
SharedTopicIsCommonWhenNoStepFails ==
  (Returned /\ ~StepFails) =>
    \A t \in TopicNames :
      Cardinality({i \in DOMAIN articles : t \in Range(TopicList(i))}) >= 2 => t \in Common

\* C12's statement where the recent label is not Neutral
ShiftingWhenRecentNotNeutral ==
  (Returned /\ Len(articles) >= 2 /\ RecentLabel # "Neutral") => C12_ShiftingFallback

\* C15's statement on the batches where no two percentages are exactly 20 apart
ToneWhenNotTwentyApart ==
  (/\ Summarised
   /\ 100 * PositiveCount # 100 * NegativeCount + 20 * Total
   /\ 100 * NegativeCount # 100 * PositiveCount + 20 * Total)
  => C15_ToneByPercentages

\* C14's statement on the empty batch and on the batches with a tallied article
NoCoverageOnlyWhenEmpty ==
  (Summarised /\ ~CounterRaises(articles)) =>
    (final_sentiment.val = "No news coverage found for " \o company_name \o "."
       <=> articles = <<>>)

\* what holds of a unique_topics entry: the article's non-common topics, each once,
\* in some order, and no entry for an article that has none
UniqueIsNonCommonInSomeOrder ==
  (Returned /\ ~StepFails) =>
    \A i \in DOMAIN articles :
      LET unique == UniqueOf(ArticleLabel(i))
      IN /\ Range(unique) = Range(TopicList(i)) \ Common
         /\ \A a, b \in DOMAIN unique : unique[a] = unique[b] => a = b

\* C21's statement on every report of a call in which no step raised
SparseMappingWhenNoStepFails == (Returned /\ ~StepFails) => C21_SparseMapping

\* C22's statement on the reports of batches whose first two articles both have a
\* sentiment field
TrendOfDisplayedWhenBothPresent ==
  (/\ Returned
   /\ Len(articles) >= 2
   /\ "sentiment" \in DOMAIN articles[1]
   /\ "sentiment" \in DOMAIN articles[2])
  => C22_TrendOfDisplayed

\* the two parts of C23 that the code keeps: a request that got no article has
\* invoked neither analyzer, and it is answered with an error status
NoAnalyzerWhenNoArticles ==
  \A r \in Requests :
    GotNoArticles(r) => handlers[r].invoked = {} /\ handlers[r].response.status = 500

\* C24's statement while a single /tts request has been received
AudioIsOwnWhenAlone ==
  Cardinality({r \in Requests : handlers[r].endpoint = "/tts"}) <= 1 => C24_AudioIsOwn

\* a concurrent reader never finds another path than the one of the instance
OnePathForAll ==
  \A r \in Requests :
    PathReturned(r) => handlers[r].response.body.audio_path = OutputFile(text_to_speech)

====
